---- MODULE Spec2Model ----
(***************************************************************************)
(* VocalTune job pipelines and their status stores.                        *)
(*                                                                         *)
(*   backend-api/job_store.py   the in-process status store                *)
(*   backend-api/main.py        the API: submit, poll, local pipelines     *)
(*   backend-api/karaoke.py     the karaoke pipeline                       *)
(*   ai-worker/tasks.py         the Celery tasks and the Redis store       *)
(*                                                                         *)
(* A status record is a Python dict: here a function from field names to   *)
(* values.  Messages and error texts are abstracted to ASCII tags, one tag *)
(* per distinct text the code builds.  json.dumps / json.loads of such a   *)
(* dict (strings, ints, None) gives the dict back, so a Redis value is     *)
(* kept as the dict it encodes.                                            *)
(***************************************************************************)
EXTENDS Integers, Sequences, FiniteSets, TLC

VARIABLES
    job_status_store,   \* job_store.py:3, the dict job id -> status dict
    redis,              \* the keys job:<id>:status, each with its value and time to live
    idle,               \* per job id, ticks since the last write to job_status_store
    last,               \* the last store-level call and what it returned
    cloud,              \* whether REDIS_URL is set for the API process
    task                \* the pipeline invocations (background tasks, Celery tasks)

vars == <<job_status_store, redis, idle, last, cloud, task>>

(***************************************************************************)
(* Bounds of the model.                                                    *)
(***************************************************************************)
NumJobIds == 2          \* size of the space job ids are drawn from
TtlTicks == 2           \* clock ticks in the retention window of a Redis key (ex=3600)
MaxTasks == 2           \* pipeline invocations in one behaviour

JobIds == 1..NumJobIds
Tasks == 1..MaxTasks

(***************************************************************************)
(* job_store.py                                                            *)
(***************************************************************************)
\* The default get_job_status returns for a job id with no entry.
UnknownStatus == [status |-> "unknown"]

\* dict.update: the fields of diff replace or extend those of old.
DictUpdate(old, diff) == diff @@ old

\* A store that assigns the diff instead of merging it
\* (job_status_store[job_id] = diff).
update_job_status_assign(store, job_id, diff) == (job_id :> diff) @@ store

\* A store whose entries all are one dict object: an update shows in every
\* record (what job_status_store would be were its entries created from one
\* shared default).
update_job_status_shared(store, job_id, diff) ==
    [j \in DOMAIN store \cup {job_id} |->
        DictUpdate(IF j \in DOMAIN store THEN store[j] ELSE << >>, diff)]

\* An update that is seen half-way: the error field of the diff is not yet
\* in the record when the step ends.
update_job_status_torn(store, job_id, diff) ==
    LET old == IF job_id \in DOMAIN store THEN store[job_id] ELSE << >>
        part == [k \in DOMAIN diff \ {"error"} |-> diff[k]]
    IN  (job_id :> DictUpdate(old, part)) @@ store

\* update_job_status(job_id, diff), as the new value of the store dict.
update_job_status(store, job_id, diff) ==
    LET old == IF job_id \in DOMAIN store THEN store[job_id] ELSE << >>
    IN  (job_id :> DictUpdate(old, diff)) @@ store

\* get_job_status(job_id)
get_job_status(store, job_id) ==
    IF job_id \in DOMAIN store THEN store[job_id] ELSE UnknownStatus

\* dict.get(key, default)
DictGet(d, key, default) == IF key \in DOMAIN d THEN d[key] ELSE default

(***************************************************************************)
(* ai-worker/tasks.py: the Redis-backed store                              *)
(***************************************************************************)
\* update_status(job_id, status): SET job:<id>:status <json> EX 3600.
update_status(rds, job_id, status) ==
    (job_id :> [val |-> status, ttl |-> TtlTicks]) @@ rds

\* redis_client.get(status_key) is None for a missing or expired key.
RedisHas(rds, job_id) == job_id \in DOMAIN rds

\* json.loads(redis_client.get(status_key)) for a key that is there.
RedisGet(rds, job_id) == rds[job_id].val

\* One clock tick in Redis: every key's time to live drops by one and a key at
\* the end of its time to live is removed.
RedisTick(rds) ==
    [k \in {j \in DOMAIN rds : rds[j].ttl > 1} |->
        [val |-> rds[k].val, ttl |-> rds[k].ttl - 1]]

(***************************************************************************)
(* main.py: the polling endpoints                                          *)
(***************************************************************************)
Http404 == [kind |-> "http_error", code |-> 404]

\* GET /api/status/{job_id}
get_status(store, job_id) ==
    LET status == get_job_status(store, job_id)
    IN  IF DictGet(status, "status", "None") = "unknown"
        THEN Http404
        ELSE [kind |-> "ok",
              body |-> [job_id |-> job_id,
                        status |-> DictGet(status, "status", "unknown"),
                        progress |-> DictGet(status, "progress", 0),
                        message |-> DictGet(status, "message", ""),
                        file_url |-> DictGet(status, "file_url", "None"),
                        vocals_url |-> DictGet(status, "vocals_url", "None"),
                        tracks |-> DictGet(status, "tracks", "None"),
                        error |-> DictGet(status, "error", "None")]]

\* GET /api/transcribe/status/{task_id}.  redisOk is FALSE when the Redis
\* call raises (the except branch only prints).
get_transcribe_status(isCloud, rds, store, task_id, redisOk) ==
    LET status == get_job_status(store, task_id)
    IN  IF isCloud /\ redisOk /\ RedisHas(rds, task_id)
        THEN [kind |-> "ok", body |-> RedisGet(rds, task_id)]
        ELSE IF DictGet(status, "status", "None") = "unknown"
        THEN Http404
        ELSE [kind |-> "ok",
              body |-> [task_id |-> task_id,
                        status |-> DictGet(status, "status", "unknown"),
                        progress |-> DictGet(status, "progress", 0),
                        message |-> DictGet(status, "message", ""),
                        midi_url |-> DictGet(status, "midi_url", "None")]]

(***************************************************************************)
(* The initial state: an API process and a worker that have just started,  *)
(* an empty job_status_store and no status key in Redis.                   *)
(***************************************************************************)
IdleTask ==
    [kind |-> "none", pc |-> "idle", jid |-> 0, src |-> 0, inp |-> "none",
     n |-> 0,    \* progress lines read from the running separation process
     inst |-> FALSE, vurl |-> "None", iurl |-> "None",
     why |-> "none", at |-> "none", nz |-> FALSE,
     lay |-> "none", \* where the stems were when the separation had exited with 0
     runs |-> 0] \* times the broker delivered the task's message again

Init ==
    /\ job_status_store = << >>
    /\ redis = << >>
    /\ idle = [j \in JobIds |-> 0]
    /\ last = [op |-> "none"]
    /\ cloud \in BOOLEAN
    /\ task = [t \in Tasks |-> IdleTask]

(***************************************************************************)
(* The two stores under the same calls.  Section 4.3 of the specification  *)
(* gives both backings one contract, Set(jobId, fields) and Get(jobId);    *)
(* here every Set is issued against both, update_job_status on the dict    *)
(* and update_status on Redis, and the polling endpoints read them.        *)
(***************************************************************************)
\* The shapes of status dicts the callers pass: partial updates and the
\* terminal error record of a failing job (main.py:330-335), which names
\* every field the partial ones name.
Diffs ==
    { [progress |-> 10],
      [message |-> "x"],
      [status |-> "error", progress |-> 0, message |-> "failed: e", error |-> "e"] }

StoreSet(id, diff) ==
    /\ job_status_store' = update_job_status(job_status_store, id, diff)
    /\ redis' = update_status(redis, id, diff)
    /\ idle' = [idle EXCEPT ![id] = 0]
    /\ last' = [op |-> "set", id |-> id, diff |-> diff]
    /\ UNCHANGED <<cloud, task>>

PollStatus(id) ==
    /\ last' = [op |-> "get_status", id |-> id,
                known |-> id \in DOMAIN job_status_store,
                resp |-> get_status(job_status_store, id)]
    /\ UNCHANGED <<job_status_store, redis, idle, cloud, task>>

PollTranscribe(id, redisOk) ==
    /\ last' = [op |-> "get_transcribe_status", id |-> id,
                known |-> \/ id \in DOMAIN job_status_store
                          \/ cloud /\ redisOk /\ RedisHas(redis, id),
                resp |-> get_transcribe_status(cloud, redis, job_status_store,
                                               id, redisOk)]
    /\ UNCHANGED <<job_status_store, redis, idle, cloud, task>>

\* Time passes: Redis ages its keys; job_status_store is a plain dict and
\* nothing in job_store.py or main.py removes an entry from it.
Tick ==
    /\ redis' = RedisTick(redis)
    /\ idle' = [j \in JobIds |-> IF idle[j] < TtlTicks THEN idle[j] + 1 ELSE idle[j]]
    /\ last' = [op |-> "tick"]
    /\ UNCHANGED <<job_status_store, cloud, task>>

NextStore ==
    \/ \E id \in JobIds, diff \in Diffs : StoreSet(id, diff)
    \/ \E id \in JobIds : PollStatus(id)
    \/ \E id \in JobIds, redisOk \in BOOLEAN : PollTranscribe(id, redisOk)
    \/ Tick

SpecStore == Init /\ [][NextStore]_vars

(***************************************************************************)
(* The pipelines.  A pipeline invocation is a background task of the API   *)
(* (a coroutine on the one event loop, so the code between two awaits is   *)
(* one step) or a Celery task of the worker (every Redis call is a step).  *)
(* task[t].pc is where invocation t stands; a pc in ProcPcs means that an  *)
(* external process of that stage is running.  The fields why, at and nz   *)
(* only record what happened: why the pipeline failed, at which stage, and *)
(* whether a stage process exited with a non-zero code.                    *)
(***************************************************************************)
\* str(uuid.uuid4())[:8]: eight hex digits of a random uuid; no call site
\* looks the id up in job_status_store or on disk before using it.
NewJobIds == JobIds

\* Invocation slots are taken in order.
Free(t) ==
    /\ task[t].pc = "idle"
    /\ \A u \in Tasks : u < t => task[u].pc # "idle"

\* A status dict {"status": .., "progress": .., "message": ..}.
St(status, progress, message) ==
    [status |-> status, progress |-> progress, message |-> message]

\* The dict the except branches of main.py and tasks.py write.
ErrorStatus(prefix, e) ==
    [status |-> "error", progress |-> 0, message |-> prefix \o e, error |-> e]

\* A write that keeps the four fields of the status shape only.
Put_core(store, t, diff) ==
    update_job_status(store, task[t].jid,
        [k \in DOMAIN diff \cap {"status", "progress", "message", "error"} |-> diff[k]])

\* update_job_status for the job of invocation t.
Put(store, t, diff) == update_job_status(store, task[t].jid, diff)

\* The percentages the progress parser can hand over: int() of up to three
\* digits standing before the first '%' of a line.
LinePercents == {0, 40, 100, 200}

\* Progress lines read from one separation process in one behaviour.
MaxLines == 2

\* ---- POST /api/download and download_youtube_audio (main.py) ----
download_youtube(t, job_id) ==
    /\ Free(t)
    /\ job_status_store' =
           update_job_status(job_status_store, job_id, St("pending", 0, "task created"))
    /\ task' = [task EXCEPT ![t] =
                   [kind |-> "download", pc |-> "dl_begin", jid |-> job_id] @@ IdleTask]
    /\ UNCHANGED <<redis, idle, last, cloud>>

\* main.py:211-291: both status writes, then subprocess.run(..., timeout=120)
\* is handed to the thread pool.
DownloadStart(t) ==
    /\ task[t].pc = "dl_begin"
    /\ job_status_store' =
           LET s1 == Put(job_status_store, t, St("downloading", 10, "connecting"))
           IN  Put(s1, t, St("downloading", 30, "downloading and converting"))
    /\ task' = [task EXCEPT ![t].pc = "dl_proc"]
    /\ UNCHANGED <<redis, idle, last, cloud>>

\* main.py:294-335 once run_sync_download has returned (returncode, text).
\* The log file was opened for writing by run_sync_download, so it exists and
\* full_log is re-read from it whatever text was returned; signIn says whether
\* the log contains "Sign in", found whether a file {job_id}.* is there.
DownloadFinish(t, returncode, signIn, found, why) ==
    LET e == IF returncode # 0
             THEN IF signIn THEN "bot detection" ELSE "download failed: log tail"
             ELSE "file not found"
    IN  /\ job_status_store' =
               IF returncode = 0 /\ found
               THEN Put(job_status_store, t,
                        St("completed", 100, "download done") @@ [file_url |-> "url"])
               ELSE Put(job_status_store, t, ErrorStatus("download failed: ", e))
        /\ task' = [task EXCEPT ![t] =
                       [pc |-> "done",
                        why |-> IF returncode = 0 /\ found THEN "none" ELSE why,
                        at |-> IF returncode = 0 /\ found THEN "none" ELSE "dl_proc",
                        nz |-> why = "exit"] @@ @]
        /\ UNCHANGED <<redis, idle, last, cloud>>

\* yt-dlp exits by itself (main.py:276-277).
DownloadExit(t, returncode, signIn, found) ==
    /\ task[t].pc = "dl_proc"
    /\ DownloadFinish(t, returncode, signIn, found,
                      IF returncode # 0 THEN "exit" ELSE "output")

\* subprocess.TimeoutExpired after 120 s: the child is killed and
\* run_sync_download returns (-1, "Download timed out") (main.py:278-280).
DownloadTimeout(t, signIn) ==
    /\ task[t].pc = "dl_proc"
    /\ DownloadFinish(t, -1, signIn, FALSE, "timeout")

\* ---- POST /api/separate-local and separate_audio_local (main.py) ----
separate_local(t, job_id) ==
    /\ Free(t)
    /\ job_status_store' =
           update_job_status(job_status_store, job_id, St("pending", 0, "task created"))
    /\ task' = [task EXCEPT ![t] =
                   [kind |-> "separate", pc |-> "sep_begin", jid |-> job_id] @@ IdleTask]
    /\ UNCHANGED <<redis, idle, last, cloud>>

\* main.py:340-371: progress 10, then progress 0, then the Demucs process is
\* created (no timeout is given anywhere).
SeparateStart(t) ==
    /\ task[t].pc = "sep_begin"
    /\ job_status_store' =
           LET s1 == Put(job_status_store, t, St("separating", 10, "loading model"))
           IN  Put(s1, t, St("separating", 0, "starting engine"))
    /\ task' = [task EXCEPT ![t].pc = "sep_proc"]
    /\ UNCHANGED <<redis, idle, last, cloud>>

\* main.py:374-414, read_stream: a line with '%' and '|' whose number parses
\* to percent is written as the job's progress, unchanged.
SeparateLine(t, percent) ==
    /\ task[t].pc = "sep_proc"
    /\ task[t].n < MaxLines
    /\ job_status_store' =
           Put(job_status_store, t, St("separating", percent, "separating pct"))
    /\ task' = [task EXCEPT ![t].n = @ + 1]
    /\ UNCHANGED <<redis, idle, last, cloud>>

\* Where the output of Demucs is: "expected", in <output>/htdemucs_6s/<name>;
\* "fallback", that directory does not exist and the stems are in another
\* directory below the job's output directory; "missing", neither; "empty",
\* the expected directory exists and holds none of the six stems.
\* stems_dir is the directory the code settles on (main.py:436-445,
\* karaoke.py:253-266, tasks.py:206-213): the expected one when it exists,
\* else the parent of the first file the recursive search finds, else none
\* (an exception is raised).
stems_dir_no_fallback(layout) ==
    IF layout \in {"expected", "empty"} THEN "expected" ELSE "none"

stems_dir(layout) ==
    CASE layout \in {"expected", "empty"} -> "expected"
      [] layout = "fallback" -> "found"
      [] layout = "missing" -> "none"

\* main.py:417-475 once both streams are at EOF and the process has exited.
SeparateExit(t, returncode, layout) ==
    /\ task[t].pc = "sep_proc"
    /\ LET e == IF returncode # 0 THEN "exit code"
                ELSE IF stems_dir(layout) = "none" THEN "stems not found"
                ELSE "no tracks"
           ok == returncode = 0 /\ stems_dir(layout) # "none" /\ layout # "empty"
           s1 == Put(job_status_store, t, St("processing", 80, "collecting stems"))
       IN  /\ job_status_store' =
                  IF returncode # 0
                  THEN Put(job_status_store, t, ErrorStatus("separation failed: ", e))
                  ELSE IF ok
                  THEN Put(s1, t, St("completed", 100, "separation done")
                                      @@ [tracks |-> "tracks"])
                  ELSE Put(s1, t, ErrorStatus("separation failed: ", e))
           /\ task' = [task EXCEPT ![t] =
                          [pc |-> "done", n |-> 0,
                           why |-> IF ok THEN "none"
                                   ELSE IF returncode # 0 THEN "exit" ELSE "output",
                           at |-> IF ok THEN "none" ELSE "sep_proc",
                           nz |-> returncode # 0,
                           lay |-> IF returncode = 0 THEN layout ELSE "none"] @@ @]
    /\ UNCHANGED <<redis, idle, last, cloud>>

\* ---- POST /api/karaoke/process (main.py) and process_karaoke_job (karaoke.py) ----
\* inp: the request's youtube_url field starts with "http" ("http") or is
\* taken as a file path ("path"); nothing else is checked.
create_karaoke(t, job_id, inp) ==
    /\ Free(t)
    /\ job_status_store' =
           update_job_status(job_status_store, job_id, St("pending", 0, "task created"))
    /\ task' = [task EXCEPT ![t] =
                   [kind |-> "karaoke", pc |-> "k_begin", jid |-> job_id,
                    inp |-> inp] @@ IdleTask]
    /\ UNCHANGED <<redis, idle, last, cloud>>

\* The dict the except branch of process_karaoke_job writes (karaoke.py:405):
\* no progress field.
KaraokeError(e) ==
    [status |-> "error", message |-> "karaoke failed: " \o e, error |-> e]

\* The pipeline stops in its except branch after store s was reached.
KaraokeFail(t, s, e, why, nonzero) ==
    /\ job_status_store' = Put(s, t, KaraokeError(e))
    /\ task' = [task EXCEPT ![t] =
                   [pc |-> "done", n |-> 0, why |-> why, at |-> task[t].pc,
                    nz |-> task[t].nz \/ nonzero] @@ @]

\* A pipeline that starts over with its first process after the download
\* instead of going on.
KaraokeGo_restart(t, s, to, nonzero) ==
    /\ job_status_store' = s
    /\ task' = [task EXCEPT ![t] =
                   [pc |-> IF task[t].pc = "k_dl" THEN "k_title" ELSE to,
                    n |-> 0, nz |-> task[t].nz \/ nonzero] @@ @]

\* The pipeline goes on to the stage at pc `to` with store s.
KaraokeGo(t, s, to, nonzero) ==
    /\ job_status_store' = s
    /\ task' = [task EXCEPT ![t] =
                   [pc |-> to, n |-> 0, nz |-> task[t].nz \/ nonzero] @@ @]

\* karaoke.py:32-70 for a URL (the title process is created), 123-166 for a
\* file path (copy, info.json, progress 30, the extraction process is created).
KaraokeStart(t, sourceExists) ==
    /\ task[t].pc = "k_begin"
    /\ IF task[t].inp = "http"
       THEN KaraokeGo(t, Put(job_status_store, t, St("downloading", 10, "downloading video")),
                      "k_title", FALSE)
       ELSE LET s1 == Put(job_status_store, t, St("processing", 10, "reading video"))
            IN  IF sourceExists
                THEN KaraokeGo(t, Put(s1, t, St("separating", 30, "preparing audio")),
                               "k_extract", FALSE)
                ELSE KaraokeFail(t, s1, "source not found", "input", FALSE)
    /\ UNCHANGED <<redis, idle, last, cloud>>

\* karaoke.py:70-112: yt-dlp --get-title has ended (its exit code only decides
\* the title); the download process is created.
KaraokeTitleExit(t) ==
    /\ task[t].pc = "k_title"
    /\ KaraokeGo(t, job_status_store, "k_dl", FALSE)
    /\ UNCHANGED <<redis, idle, last, cloud>>

\* karaoke.py:113-166
KaraokeDownloadExit(t, returncode, exists) ==
    /\ task[t].pc = "k_dl"
    /\ IF returncode # 0 \/ ~exists
       THEN KaraokeFail(t, job_status_store, "download failed",
                        IF returncode # 0 THEN "exit" ELSE "output", returncode # 0)
       ELSE KaraokeGo(t, Put(job_status_store, t, St("separating", 30, "preparing audio")),
                      "k_extract", FALSE)
    /\ UNCHANGED <<redis, idle, last, cloud>>

\* karaoke.py:167-193: only the existence of source_audio.wav is looked at,
\* proc_ext.returncode is not; then progress 40 and the Demucs process.
KaraokeExtractExit(t, returncode, exists) ==
    /\ task[t].pc = "k_extract"
    /\ IF ~exists
       THEN KaraokeFail(t, job_status_store, "extract failed",
                        IF returncode # 0 THEN "exit" ELSE "output", returncode # 0)
       ELSE KaraokeGo(t, Put(job_status_store, t, St("separating", 40, "removing vocals")),
                      "k_demucs", returncode # 0)
    /\ UNCHANGED <<redis, idle, last, cloud>>

\* The mapping turned round: the band end less the scaled percentage.
OverallProg_inverted(d_prog) == 85 - (d_prog * 55) \div 100

\* The mapping with the factor 0.5 in place of 0.55.
OverallProg_half(d_prog) == 30 + d_prog \div 2

\* karaoke.py:234, overall_prog = 30 + int(d_prog * 0.55)
OverallProg(d_prog) == 30 + (d_prog * 55) \div 100

\* A reader that writes the status for every progress line.
KaraokeRead_always(t, d_prog) ==
    /\ task[t].pc = "k_demucs"
    /\ task[t].n < MaxLines
    /\ job_status_store' =
           Put(job_status_store, t,
               St("separating", OverallProg(d_prog), "removing vocals pct"))
    /\ task' = [task EXCEPT ![t].n = @ + 1]
    /\ UNCHANGED <<redis, idle, cloud>>

\* karaoke.py:198-243: one progress line of Demucs is read; the status is
\* written if overall_prog % 2 == 0 (karaoke.py:236).
KaraokeRead(t, d_prog) ==
    /\ task[t].pc = "k_demucs"
    /\ task[t].n < MaxLines
    /\ job_status_store' =
           IF OverallProg(d_prog) % 2 = 0
           THEN Put(job_status_store, t,
                    St("separating", OverallProg(d_prog), "removing vocals pct"))
           ELSE job_status_store
    /\ task' = [task EXCEPT ![t].n = @ + 1]
    /\ UNCHANGED <<redis, idle, cloud>>

KaraokeLine(t, d_prog) == KaraokeRead(t, d_prog) /\ UNCHANGED last

\* karaoke.py:245-303: exit code, stems directory (with the rglob fallback),
\* progress 85, the backing stems, then the ffmpeg mix process.
KaraokeDemucsExit(t, returncode, layout, backing) ==
    /\ task[t].pc = "k_demucs"
    /\ LET s1 == Put(job_status_store, t, St("processing", 85, "mixing backing track"))
           found == stems_dir(layout) # "none"
           fail == returncode # 0 \/ ~found \/ ~backing
       IN  /\ job_status_store' =
                  IF returncode # 0
                  THEN Put(job_status_store, t, KaraokeError("demucs exit code: log tail"))
                  ELSE IF ~found
                  THEN Put(job_status_store, t, KaraokeError("stems not found"))
                  ELSE IF ~backing
                  THEN Put(s1, t, KaraokeError("no backing stems"))
                  ELSE s1
           /\ task' = [task EXCEPT ![t] =
                          [pc |-> IF fail THEN "done" ELSE "k_mix",
                           n |-> 0,
                           why |-> IF returncode # 0 THEN "exit"
                                   ELSE IF fail THEN "output" ELSE task[t].why,
                           at |-> IF fail THEN "k_demucs" ELSE task[t].at,
                           nz |-> task[t].nz \/ returncode # 0,
                           lay |-> IF returncode # 0 THEN "none"
                                   ELSE IF found /\ ~backing THEN "empty"
                                   ELSE layout] @@ @]
    /\ UNCHANGED <<redis, idle, last, cloud>>

\* karaoke.py:304-331: proc_mix.returncode is not looked at; with a vocals.wav
\* progress 90 is written and its mp3 conversion started, otherwise the first
\* stem conversion starts (at least one stem exists, idx > 0).
KaraokeMixExit(t, returncode, instExists, vocals) ==
    /\ task[t].pc = "k_mix"
    /\ job_status_store' =
           IF vocals
           THEN Put(job_status_store, t, St("processing", 90, "processing vocals"))
           ELSE job_status_store
    /\ task' = [task EXCEPT ![t] =
                   [pc |-> IF vocals THEN "k_vocals" ELSE "k_stems",
                    inst |-> instExists, lay |-> "none",
                    nz |-> task[t].nz \/ returncode # 0] @@ @]
    /\ UNCHANGED <<redis, idle, last, cloud>>

\* karaoke.py:320-331: the vocals conversion has ended; vocals_url is None
\* unless vocals.mp3 exists.  The stem conversions follow.
KaraokeVocalsExit(t, returncode, mp3Exists) ==
    /\ task[t].pc = "k_vocals"
    /\ task' = [task EXCEPT ![t] =
                   [pc |-> "k_stems",
                    vurl |-> IF mp3Exists THEN "url" ELSE "None",
                    nz |-> task[t].nz \/ returncode # 0] @@ @]
    /\ UNCHANGED <<job_status_store, redis, idle, last, cloud>>

\* karaoke.py:336-374: the stem conversions have ended; progress 92; with an
\* instrumental.wav its conversion starts, without one convert_to_mp3 returns
\* None at once, progress 95 is written and the remux process starts.
KaraokeStemsExit(t, returncode) ==
    /\ task[t].pc = "k_stems"
    /\ LET s1 == Put(job_status_store, t, St("processing", 92, "optimising backing track"))
       IN  IF task[t].inst
           THEN KaraokeGo(t, s1, "k_inst", returncode # 0)
           ELSE KaraokeGo(t, Put(s1, t, St("processing", 95, "writing video")),
                          "k_remux", returncode # 0)
    /\ UNCHANGED <<redis, idle, last, cloud>>

\* karaoke.py:351-374
KaraokeInstExit(t, returncode, mp3Exists) ==
    /\ task[t].pc = "k_inst"
    /\ job_status_store' = Put(job_status_store, t, St("processing", 95, "writing video"))
    /\ task' = [task EXCEPT ![t] =
                   [pc |-> "k_remux",
                    iurl |-> IF mp3Exists THEN "url" ELSE "None",
                    nz |-> task[t].nz \/ returncode # 0] @@ @]
    /\ UNCHANGED <<redis, idle, last, cloud>>

\* karaoke.py:376-405.  ffmpeg cannot exit with 0 when its input
\* instrumental.wav does not exist.
KaraokeRemuxExit(t, returncode) ==
    /\ task[t].pc = "k_remux"
    /\ returncode = 0 => task[t].inst
    /\ IF returncode # 0
       THEN KaraokeFail(t, job_status_store, "remux failed", "exit", TRUE)
       ELSE KaraokeGo(t, Put(job_status_store, t,
                             St("completed", 100, "conversion done")
                                 @@ [file_url |-> "url", vocals_url |-> task[t].vurl,
                                     instrumental_url |-> task[t].iurl,
                                     stems |-> "stems"]),
                      "done", FALSE)
    /\ UNCHANGED <<redis, idle, last, cloud>>

\* ---- POST /api/transcribe and local_transcribe (main.py) ----
\* main.py:675-835 for a valid stem: the pending record goes to
\* job_status_store in both modes; with REDIS_URL set the work is sent to the
\* Celery task tasks.transcribe_audio, otherwise local_transcribe is added
\* as a background task.  src is request.job_id.
transcribe_audio(t, job_id, src) ==
    /\ Free(t)
    /\ job_status_store' =
           update_job_status(job_status_store, job_id, St("pending", 0, "task created"))
    /\ task' = [task EXCEPT ![t] =
                   [kind |-> IF cloud THEN "wtranscribe" ELSE "transcribe",
                    pc |-> IF cloud THEN "wt_begin" ELSE "tr_begin",
                    jid |-> job_id, src |-> src] @@ IdleTask]
    /\ UNCHANGED <<redis, idle, last, cloud>>

\* main.py:703-724 without basic-pitch (progress 50, then await sleep), and
\* main.py:745-833 with it: nothing is awaited between the first status
\* write and the terminal one, predict_and_save is called in place.
\* midi: "expected" or "fallback" (a *_basic_pitch.mid was found), "missing",
\* or "raise" (predict_and_save raised).
TranscribeLocal(t, hasDeps, srcFound, midi) ==
    /\ task[t].pc = "tr_begin"
    /\ LET s1 == Put(job_status_store, t, St("transcribing", 10, "reading audio"))
           s2 == Put(s1, t, St("transcribing", 30, "analysing pitch"))
           ok == srcFound /\ midi \in {"expected", "fallback"}
           e == IF ~srcFound THEN "source not found"
                ELSE IF midi = "missing" THEN "no midi generated"
                ELSE "predict raised"
       IN  IF ~hasDeps
           THEN /\ job_status_store' =
                       Put(job_status_store, t, St("transcribing", 50, "simulating"))
                /\ task' = [task EXCEPT ![t].pc = "tr_sim"]
           ELSE /\ job_status_store' =
                       IF ok
                       THEN Put(s2, t, St("completed", 100, "transcription done")
                                           @@ [midi_url |-> "url"])
                       ELSE Put(IF srcFound THEN s2 ELSE s1, t,
                                ErrorStatus("transcription failed: ", e))
                /\ task' = [task EXCEPT ![t] =
                               [pc |-> "done",
                                why |-> IF ok THEN "none"
                                        ELSE IF ~srcFound THEN "input" ELSE "output",
                                at |-> IF ok THEN "none" ELSE "tr_begin"] @@ @]
    /\ UNCHANGED <<redis, idle, last, cloud>>

\* main.py:726-742, outside any try: when mkdir or open raises, the
\* exception leaves the background task and no status is written.
TranscribeSimFinish(t, ioOk) ==
    /\ task[t].pc = "tr_sim"
    /\ job_status_store' =
           IF ioOk
           THEN Put(job_status_store, t,
                    St("completed", 100, "transcription done (simulated)")
                        @@ [midi_url |-> "url"])
           ELSE job_status_store
    /\ task' = [task EXCEPT ![t] =
                   [pc |-> IF ioOk THEN "done" ELSE "crashed",
                    why |-> IF ioOk THEN "none" ELSE "raise",
                    at |-> IF ioOk THEN "none" ELSE "tr_sim"] @@ @]
    /\ UNCHANGED <<redis, idle, last, cloud>>

(***************************************************************************)
(* ai-worker/tasks.py: the Celery tasks.  They write their status to Redis *)
(* with update_status; every Redis call is a step of its own.              *)
(***************************************************************************)
\* update_status for the job of invocation t.
PutRedis(rds, t, status) == update_status(rds, task[t].jid, status)

\* The except branch of a task: update_status(error ...), then raise.
WorkerFail(t, prefix, e, why, nonzero) ==
    /\ redis' = PutRedis(redis, t, ErrorStatus(prefix, e))
    /\ task' = [task EXCEPT ![t] =
                   [pc |-> "done", why |-> why, at |-> task[t].pc,
                    nz |-> task[t].nz \/ nonzero] @@ @]

\* The task goes on: status is written and the next call is under way.
WorkerGo(t, status, to, nonzero) ==
    /\ redis' = PutRedis(redis, t, status)
    /\ task' = [task EXCEPT ![t] = [pc |-> to, nz |-> task[t].nz \/ nonzero] @@ @]

\* ---- tasks.transcribe_audio (tasks.py:373-470) ----
WorkerTranscribeStart(t) ==
    /\ task[t].pc = "wt_begin"
    /\ WorkerGo(t, St("downloading", 10, "downloading stem"), "wt_gcs", FALSE)
    /\ UNCHANGED <<job_status_store, idle, last, cloud>>

\* tasks.py:410-420, download_from_gcs returned or raised
WorkerTranscribeFetched(t, ok) ==
    /\ task[t].pc = "wt_gcs"
    /\ IF ok
       THEN WorkerGo(t, St("transcribing", 30, "analysing pitch"), "wt_predict", FALSE)
       ELSE WorkerFail(t, "transcription failed: ", "cannot download stem", "input", FALSE)
    /\ UNCHANGED <<job_status_store, idle, last, cloud>>

\* tasks.py:426-448, predict_and_save returned; midi_files may be empty
WorkerTranscribePredicted(t, midiFound) ==
    /\ task[t].pc = "wt_predict"
    /\ IF midiFound
       THEN WorkerGo(t, St("uploading", 80, "uploading midi"), "wt_upload", FALSE)
       ELSE WorkerFail(t, "transcription failed: ", "no midi generated", "output", FALSE)
    /\ UNCHANGED <<job_status_store, idle, last, cloud>>

\* tasks.py:450-470, upload_to_gcs returned or raised
WorkerTranscribeUploaded(t, ok) ==
    /\ task[t].pc = "wt_upload"
    /\ IF ok
       THEN WorkerGo(t, St("completed", 100, "transcription done") @@ [midi_url |-> "url"],
                     "done", FALSE)
       ELSE WorkerFail(t, "transcription failed: ", "upload raised", "raise", FALSE)
    /\ UNCHANGED <<job_status_store, idle, last, cloud>>

\* ---- tasks.separate_music (tasks.py:86-254) ----
\* The task is sent by a Celery client with a job id of the client's choice.
separate_music(t, job_id) ==
    /\ Free(t)
    /\ task' = [task EXCEPT ![t] =
                   [kind |-> "wseparate", pc |-> "ws_begin", jid |-> job_id] @@ IdleTask]
    /\ UNCHANGED <<job_status_store, redis, idle, last, cloud>>

\* tasks.py:99-133: progress 10, then subprocess.run(download_cmd_simple, timeout=300)
WorkerSeparateStart(t) ==
    /\ task[t].pc = "ws_begin"
    /\ WorkerGo(t, St("downloading", 10, "downloading audio"), "ws_dl", FALSE)
    /\ UNCHANGED <<job_status_store, idle, last, cloud>>

\* tasks.py:147-193 after a download that exited with 0: the file is looked
\* for, progress 30 is written and subprocess.run(demucs_cmd_full, timeout=600)
\* is called.
WorkerSeparateDownloaded(t, found) ==
    IF found
    THEN WorkerGo(t, St("separating", 30, "separating"), "ws_demucs", FALSE)
    ELSE WorkerFail(t, "processing failed: ", "audio file not found", "output", FALSE)

\* tasks.py:128-142: the first yt-dlp run has ended; on a non-zero exit code
\* yt-dlp is run a second time, with --cookies-from-browser.
WorkerSeparateDownloadExit(t, returncode, found) ==
    /\ task[t].pc = "ws_dl"
    /\ IF returncode # 0
       THEN /\ task' = [task EXCEPT ![t] = [pc |-> "ws_dl2", nz |-> TRUE] @@ @]
            /\ UNCHANGED redis
       ELSE WorkerSeparateDownloaded(t, found)
    /\ UNCHANGED <<job_status_store, idle, last, cloud>>

\* tasks.py:137-157: the second yt-dlp run has ended.
WorkerSeparateRetryExit(t, returncode, found) ==
    /\ task[t].pc = "ws_dl2"
    /\ IF returncode # 0
       THEN WorkerFail(t, "processing failed: ", "download failed: stderr", "exit", TRUE)
       ELSE WorkerSeparateDownloaded(t, found)
    /\ UNCHANGED <<job_status_store, idle, last, cloud>>

\* tasks.py:188-203
WorkerSeparateDemucsExit(t, returncode) ==
    /\ task[t].pc = "ws_demucs"
    /\ IF returncode # 0
       THEN WorkerFail(t, "processing failed: ", "separation failed: stderr", "exit", TRUE)
       ELSE WorkerGo(t, St("uploading", 80, "uploading tracks"), "ws_upload", FALSE)
    /\ UNCHANGED <<job_status_store, idle, last, cloud>>

\* tasks.py:205-254: the stems are looked for (with the glob fallback) and
\* uploaded; upload_to_gcs may raise.
WorkerSeparateUploaded(t, layout, ok) ==
    /\ task[t].pc = "ws_upload"
    /\ LET found == stems_dir(layout) # "none"
       IN  /\ redis' =
                  PutRedis(redis, t,
                           IF ~found
                           THEN ErrorStatus("processing failed: ", "stems not found")
                           ELSE IF ~ok
                           THEN ErrorStatus("processing failed: ", "upload raised")
                           ELSE St("completed", 100, "separation done")
                                    @@ [tracks |-> "tracks"])
           /\ task' = [task EXCEPT ![t] =
                          [pc |-> "done",
                           why |-> IF ~found THEN "output"
                                   ELSE IF ~ok THEN "raise" ELSE task[t].why,
                           at |-> IF found /\ ok THEN task[t].at ELSE "ws_upload",
                           lay |-> layout] @@ @]
    /\ UNCHANGED <<job_status_store, idle, last, cloud>>

\* ---- tasks.mix_tracks (tasks.py:256-370) ----
\* src is job_id (the separation job), jid is mix_job_id; both are the
\* client's choice.
mix_tracks(t, src, mix_job_id) ==
    /\ Free(t)
    /\ task' = [task EXCEPT ![t] =
                   [kind |-> "wmix", pc |-> "wm_begin", jid |-> mix_job_id,
                    src |-> src] @@ IdleTask]
    /\ UNCHANGED <<job_status_store, redis, idle, last, cloud>>

\* tasks.py:268-272
WorkerMixStart(t) ==
    /\ task[t].pc = "wm_begin"
    /\ WorkerGo(t, St("downloading", 20, "downloading tracks"), "wm_lookup", FALSE)
    /\ UNCHANGED <<job_status_store, idle, last, cloud>>

\* A lookup that goes on to the mix without the record of the source job.
WorkerMixLookup_nocheck(t, fetched) ==
    /\ task[t].pc = "wm_lookup"
    /\ WorkerGo(t, St("mixing", 50, "mixing"), "wm_ffmpeg", FALSE)
    /\ UNCHANGED <<job_status_store, idle, last, cloud>>

\* tasks.py:274-338: the status of the source job is read from Redis, its
\* tracks are downloaded (fetched: at least one download worked), progress 50
\* is written and subprocess.run(ffmpeg_cmd, timeout=120) is called.
WorkerMixLookup(t, fetched) ==
    /\ task[t].pc = "wm_lookup"
    /\ IF ~RedisHas(redis, task[t].src)
       THEN WorkerFail(t, "mix failed: ", "source job not found", "input", FALSE)
       ELSE IF ~("tracks" \in DOMAIN RedisGet(redis, task[t].src) /\ fetched)
       THEN WorkerFail(t, "mix failed: ", "no track downloaded", "input", FALSE)
       ELSE WorkerGo(t, St("mixing", 50, "mixing"), "wm_ffmpeg", FALSE)
    /\ UNCHANGED <<job_status_store, idle, last, cloud>>

\* tasks.py:333-348
WorkerMixExit(t, returncode) ==
    /\ task[t].pc = "wm_ffmpeg"
    /\ IF returncode # 0
       THEN WorkerFail(t, "mix failed: ", "mix failed: stderr", "exit", TRUE)
       ELSE WorkerGo(t, St("uploading", 80, "uploading mix"), "wm_upload", FALSE)
    /\ UNCHANGED <<job_status_store, idle, last, cloud>>

\* tasks.py:350-370
WorkerMixUploaded(t, ok) ==
    /\ task[t].pc = "wm_upload"
    /\ IF ok
       THEN WorkerGo(t, St("completed", 100, "mix done") @@ [mix_url |-> "url"],
                     "done", FALSE)
       ELSE WorkerFail(t, "mix failed: ", "upload raised", "raise", FALSE)
    /\ UNCHANGED <<job_status_store, idle, last, cloud>>

\* The timeout each external process is run with, in seconds; 0 when the
\* call that starts it names none.
ProcTimeout(pc) ==
    CASE pc = "dl_proc" -> 120
      [] pc \in {"ws_dl", "ws_dl2"} -> 300
      [] pc = "ws_demucs" -> 600
      [] pc = "wm_ffmpeg" -> 120
      [] OTHER -> 0

\* subprocess.TimeoutExpired in a Celery task (tasks.py:128-142, 188-193,
\* 333-338): the child is killed and the exception reaches the except branch
\* of the task; its text is "Command ... timed out after N seconds".
WorkerTimeout(t) ==
    /\ task[t].kind \in {"wseparate", "wmix"}
    /\ ProcTimeout(task[t].pc) > 0
    /\ WorkerFail(t, IF task[t].kind = "wmix" THEN "mix failed: " ELSE "processing failed: ",
                  "command timed out after N seconds", "timeout", FALSE)
    /\ UNCHANGED <<job_status_store, idle, last, cloud>>

\* Deliveries of one task message after the first.
MaxRuns == 1

\* The first pc of each Celery task.
WorkerBegin(kind) ==
    CASE kind = "wtranscribe" -> "wt_begin"
      [] kind = "wseparate" -> "ws_begin"
      [] kind = "wmix" -> "wm_begin"

\* tasks.py:40 task_acks_late=True: the message of a task is acknowledged
\* when the task function has returned.  A worker that is lost while the task
\* runs leaves the message unacknowledged, the broker delivers it again and
\* the task function runs from its first line with the same arguments.
WorkerLost(t) ==
    /\ task[t].kind \in {"wtranscribe", "wseparate", "wmix"}
    /\ task[t].pc \notin {"done", WorkerBegin(task[t].kind)}
    /\ task[t].runs < MaxRuns
    /\ task' = [task EXCEPT ![t] =
                   [pc |-> WorkerBegin(task[t].kind), runs |-> task[t].runs + 1,
                    why |-> "none", at |-> "none", nz |-> FALSE,
                    lay |-> "none"] @@ @]
    /\ UNCHANGED <<job_status_store, redis, idle, last, cloud>>

\* The pcs at which an external process of the stage is running.
ProcPcs ==
    {"dl_proc", "sep_proc",
     "k_title", "k_dl", "k_extract", "k_demucs", "k_mix", "k_vocals", "k_stems",
     "k_inst", "k_remux",
     "ws_dl", "ws_dl2", "ws_demucs", "wm_ffmpeg"}

ExitCodes == {0, 1}
Layouts == {"expected", "fallback", "missing"}

Next ==
    \/ \E t \in Tasks, id \in NewJobIds : download_youtube(t, id)
    \/ \E t \in Tasks : DownloadStart(t)
    \/ \E t \in Tasks, rc \in ExitCodes, signIn, found \in BOOLEAN :
           DownloadExit(t, rc, signIn, found)
    \/ \E t \in Tasks, signIn \in BOOLEAN : DownloadTimeout(t, signIn)
    \/ \E t \in Tasks, id \in NewJobIds : separate_local(t, id)
    \/ \E t \in Tasks : SeparateStart(t)
    \/ \E t \in Tasks, p \in LinePercents : SeparateLine(t, p)
    \/ \E t \in Tasks, rc \in ExitCodes, layout \in Layouts \cup {"empty"} :
           SeparateExit(t, rc, layout)
    \/ \E t \in Tasks, id \in NewJobIds, inp \in {"http", "path"} :
           create_karaoke(t, id, inp)
    \/ \E t \in Tasks, sourceExists \in BOOLEAN : KaraokeStart(t, sourceExists)
    \/ \E t \in Tasks : KaraokeTitleExit(t)
    \/ \E t \in Tasks, rc \in ExitCodes, exists \in BOOLEAN :
           KaraokeDownloadExit(t, rc, exists)
    \/ \E t \in Tasks, rc \in ExitCodes, exists \in BOOLEAN :
           KaraokeExtractExit(t, rc, exists)
    \/ \E t \in Tasks, p \in LinePercents : KaraokeLine(t, p)
    \/ \E t \in Tasks, rc \in ExitCodes, layout \in Layouts, backing \in BOOLEAN :
           KaraokeDemucsExit(t, rc, layout, backing)
    \/ \E t \in Tasks, rc \in ExitCodes, instExists, vocals \in BOOLEAN :
           KaraokeMixExit(t, rc, instExists, vocals)
    \/ \E t \in Tasks, rc \in ExitCodes, mp3Exists \in BOOLEAN :
           KaraokeVocalsExit(t, rc, mp3Exists)
    \/ \E t \in Tasks, rc \in ExitCodes : KaraokeStemsExit(t, rc)
    \/ \E t \in Tasks, rc \in ExitCodes, mp3Exists \in BOOLEAN :
           KaraokeInstExit(t, rc, mp3Exists)
    \/ \E t \in Tasks, rc \in ExitCodes : KaraokeRemuxExit(t, rc)
    \/ \E t \in Tasks, id \in NewJobIds, src \in JobIds : transcribe_audio(t, id, src)
    \/ \E t \in Tasks, hasDeps, srcFound \in BOOLEAN,
          midi \in {"expected", "fallback", "missing", "raise"} :
           TranscribeLocal(t, hasDeps, srcFound, midi)
    \/ \E t \in Tasks, ioOk \in BOOLEAN : TranscribeSimFinish(t, ioOk)
    \/ \E t \in Tasks : WorkerTranscribeStart(t)
    \/ \E t \in Tasks, ok \in BOOLEAN : WorkerTranscribeFetched(t, ok)
    \/ \E t \in Tasks, midiFound \in BOOLEAN : WorkerTranscribePredicted(t, midiFound)
    \/ \E t \in Tasks, ok \in BOOLEAN : WorkerTranscribeUploaded(t, ok)
    \/ \E t \in Tasks, id \in JobIds : separate_music(t, id)
    \/ \E t \in Tasks : WorkerSeparateStart(t)
    \/ \E t \in Tasks, rc \in ExitCodes, found \in BOOLEAN :
           WorkerSeparateDownloadExit(t, rc, found)
    \/ \E t \in Tasks, rc \in ExitCodes, found \in BOOLEAN :
           WorkerSeparateRetryExit(t, rc, found)
    \/ \E t \in Tasks, rc \in ExitCodes : WorkerSeparateDemucsExit(t, rc)
    \/ \E t \in Tasks, layout \in Layouts, ok \in BOOLEAN :
           WorkerSeparateUploaded(t, layout, ok)
    \/ \E t \in Tasks, src, id \in JobIds : mix_tracks(t, src, id)
    \/ \E t \in Tasks : WorkerMixStart(t)
    \/ \E t \in Tasks, fetched \in BOOLEAN : WorkerMixLookup(t, fetched)
    \/ \E t \in Tasks, rc \in ExitCodes : WorkerMixExit(t, rc)
    \/ \E t \in Tasks, ok \in BOOLEAN : WorkerMixUploaded(t, ok)
    \/ \E t \in Tasks : WorkerTimeout(t)
    \/ \E t \in Tasks : WorkerLost(t)

Spec == Init /\ [][Next]_vars

(***************************************************************************)
(* The progress mapping of the karaoke separation stage on its own: every  *)
(* percentage the parser can hand over is mapped, and the step records the *)
(* input and the mapped value.                                             *)
(***************************************************************************)
\* The largest stage percentage mapped.
MaxPercent == 100

\* karaoke.py:231-234: d_prog = int(percent); overall_prog = 30 + int(d_prog * 0.55)
KaraokeMap(d_prog) ==
    /\ last' = [op |-> "overall_prog", d_prog |-> d_prog,
                overall_prog |-> OverallProg(d_prog)]
    /\ UNCHANGED <<job_status_store, redis, idle, cloud, task>>

NextMap == \E d_prog \in 0..MaxPercent : KaraokeMap(d_prog)

SpecMap == Init /\ [][NextMap]_vars

(***************************************************************************)
(* The progress parser of read_stream (main.py:400-414) and of the karaoke *)
(* reader (karaoke.py:226-243) on its own.  A line is a sequence of        *)
(* characters that arrive one by one; ParseLine parses the line and        *)
(* records it with what the parser yields, NoMatch when it yields nothing  *)
(* (no status write follows, and an exception of int() is swallowed by the *)
(* bare except).                                                           *)
(***************************************************************************)
\* The characters of a line: two digits, the blank, '%', '|' and a letter.
DigitChars == {"4", "5"}
LineChars == DigitChars \cup {" ", "%", "|", "x"}

\* The longest line parsed.
MaxLineLen == 5

NoMatch == -1

\* c in s
In(c, s) == \E i \in DOMAIN s : s[i] = c

\* s.split(c)[0]: what stands before the first c (all of s without a c).
SplitFirst(s, c) ==
    IF In(c, s)
    THEN SubSeq(s, 1, (CHOOSE i \in DOMAIN s : s[i] = c /\ \A j \in 1..(i - 1) : s[j] # c) - 1)
    ELSE s

\* The whitespace str.strip() removes, as far as the lines here hold it.
Whitespace == {" ", "\n", "\r"}

\* s.strip()
RECURSIVE strip(_)
strip(s) ==
    IF s = << >> THEN s
    ELSE IF Head(s) \in Whitespace THEN strip(Tail(s))
    ELSE IF s[Len(s)] \in Whitespace THEN strip(SubSeq(s, 1, Len(s) - 1))
    ELSE s

\* s[-3:]
Last3(s) == IF Len(s) <= 3 THEN s ELSE SubSeq(s, Len(s) - 2, Len(s))

\* s.isdigit()
isdigit(s) == s # << >> /\ \A i \in DOMAIN s : s[i] \in DigitChars

\* int(s) for a digit string
RECURSIVE int(_)
int(s) ==
    IF s = << >> THEN 0
    ELSE 10 * int(SubSeq(s, 1, Len(s) - 1)) + (IF s[Len(s)] = "4" THEN 4 ELSE 5)

\* main.py:400-406 / karaoke.py:226-232: the value handed to the status
\* write, NoMatch when the line is no progress line or percent.isdigit()
\* is false.
ParsePercent(line) ==
    IF In("%", line) /\ In("|", line)
    THEN LET percent_str == strip(SplitFirst(line, "%"))
             percent == strip(Last3(percent_str))
         IN  IF isdigit(percent) THEN int(percent) ELSE NoMatch
    ELSE NoMatch

\* The reader has one more character of a line.
LineChar(c) ==
    LET line == IF last.op = "line" THEN last.line ELSE << >>
    IN  /\ Len(line) < MaxLineLen
        /\ last' = [op |-> "line", line |-> Append(line, c)]
        /\ UNCHANGED <<job_status_store, redis, idle, cloud, task>>

\* The reader hands the line over: it is stripped and not empty
\* (main.py:392-394), and the parser looks at it.
ParseLine ==
    /\ last.op = "line"
    /\ last.line = strip(last.line)
    /\ last' = [op |-> "parse", line |-> last.line, percent |-> ParsePercent(last.line)]
    /\ UNCHANGED <<job_status_store, redis, idle, cloud, task>>

NextParse ==
    \/ \E c \in LineChars : LineChar(c)
    \/ ParseLine

SpecParse == Init /\ [][NextParse]_vars

(***************************************************************************)
(* The output reader of read_stream (main.py:374-394) and of the karaoke   *)
(* job (karaoke.py:195-221) on its own.  The stream delivers chunks; the   *)
(* reader appends each chunk to its buffer and cuts lines off the buffer   *)
(* while it holds a terminator.  The record in last holds the bytes that   *)
(* arrived, the buffer, and the lines handed to the progress parser.       *)
(***************************************************************************)
\* The characters of the stream: two letters and the two terminators.
StreamChars == {"a", "b", "\n", "\r"}

\* The longest chunk a read returns (stream.read(100), stdout.read(4096)).
MaxChunkLen == 3

\* The number of chunks read before the stream ends.
MaxChunks == 2

ChunkSet == UNION {[1..n -> StreamChars] : n \in 1..MaxChunkLen}

\* s.split(c, 1)[1]: what stands after the first c.
AfterFirst(s, c) ==
    SubSeq(s, (CHOOSE i \in DOMAIN s : s[i] = c /\ \A j \in 1..(i - 1) : s[j] # c) + 1, Len(s))

\* main.py:386-394 / karaoke.py:213-221: the inner while loop.  A '\n'
\* anywhere in the buffer is preferred to a '\r', also to an earlier one;
\* the line is stripped and an empty line is skipped.
RECURSIVE SplitLoop(_, _)
SplitLoop(buffer, lines) ==
    IF In("\n", buffer) \/ In("\r", buffer)
    THEN LET c == IF In("\n", buffer) THEN "\n" ELSE "\r"
             line == strip(SplitFirst(buffer, c))
             rest == AfterFirst(buffer, c)
         IN  IF line = << >>
             THEN SplitLoop(rest, lines)
             ELSE SplitLoop(rest, Append(lines, line))
    ELSE [buffer |-> buffer, lines |-> lines]

\* buffer = "" (main.py:375, karaoke.py:195) before the first read.
ReaderStart == [op |-> "read", arrived |-> << >>, buffer |-> << >>, lines |-> << >>, chunks |-> 0]

Reader == IF last.op = "read" THEN last ELSE ReaderStart

\* One turn of the outer loop with a non-empty chunk.
ReadChunk(chunk) ==
    /\ last.op \in {"none", "read"}
    /\ Reader.chunks < MaxChunks
    /\ LET r == SplitLoop(Reader.buffer \o chunk, Reader.lines)
       IN  last' = [op |-> "read", arrived |-> Reader.arrived \o chunk,
                    buffer |-> r.buffer, lines |-> r.lines,
                    chunks |-> Reader.chunks + 1]
    /\ UNCHANGED <<job_status_store, redis, idle, cloud, task>>

\* if not chunk: break.  What the buffer still holds is never handed over.
ReadEof ==
    /\ last.op = "read"
    /\ last' = [last EXCEPT !.op = "eof"]
    /\ UNCHANGED <<job_status_store, redis, idle, cloud, task>>

NextRead ==
    \/ \E chunk \in ChunkSet : ReadChunk(chunk)
    \/ ReadEof

SpecRead == Init /\ [][NextRead]_vars

(***************************************************************************)
(* The diagnostic text of a job that fails because its process exited with *)
(* a non-zero code: main.py:294-306 (download), karaoke.py:195-249         *)
(* (Demucs of a karaoke job) and tasks.py:128-145 (download of the         *)
(* worker).  A process writes its output in reads of some size; only the   *)
(* lengths are kept: the bytes written, the chunks in full_log, and the    *)
(* length of the text that goes into the error record.                     *)
(***************************************************************************)
\* full_log[-300:] (main.py:306)
TailChars == 300

\* proc_demucs.stdout.read(4096) (karaoke.py:200)
ChunkBytes == 4096

\* "".join(full_log[-20:]) (karaoke.py:248)
LogChunks == 20

\* if len(full_log) > 1000: full_log = full_log[-500:] (karaoke.py:209-210)
LogTrimAt == 1000
LogKeep == 500

\* The reads of one process.
MaxReads == 25

TailKinds == {"download", "karaoke", "wseparate"}

\* Every read of a process returns this many bytes: a full chunk, or a chunk
\* of TailChars bytes, or one byte.
ReadSizes == {1, TailChars, ChunkBytes}

Min(a, b) == IF a <= b THEN a ELSE b

\* The length of the diagnostic text in the exception of a non-zero exit.
DiagLen(kind, size, log, bytes) ==
    CASE kind = "download" -> Min(bytes, TailChars)
      [] kind = "karaoke" -> Min(log, LogChunks) * size
      [] kind = "wseparate" -> bytes

\* The process of a job of the kind is created.
TailStart(kind, size) ==
    /\ last.op = "none"
    /\ last' = [op |-> "proc", kind |-> kind, size |-> size,
                reads |-> 0, log |-> 0, bytes |-> 0]
    /\ UNCHANGED <<job_status_store, redis, idle, cloud, task>>

\* The process writes one more chunk; the karaoke reader appends it to
\* full_log and trims the list.
TailRead ==
    /\ last.op = "proc"
    /\ last.reads < MaxReads
    /\ last' = [last EXCEPT !.reads = @ + 1,
                            !.bytes = @ + last.size,
                            !.log = IF @ + 1 > LogTrimAt THEN LogKeep ELSE @ + 1]
    /\ UNCHANGED <<job_status_store, redis, idle, cloud, task>>

\* The process exits; on a non-zero code the exception text is built.
TailExit(returncode) ==
    /\ last.op = "proc"
    /\ last' = IF returncode # 0
               THEN [op |-> "failed", kind |-> last.kind, bytes |-> last.bytes,
                     diag |-> DiagLen(last.kind, last.size, last.log, last.bytes)]
               ELSE [op |-> "exited", kind |-> last.kind, bytes |-> last.bytes]
    /\ UNCHANGED <<job_status_store, redis, idle, cloud, task>>

NextTail ==
    \/ \E kind \in TailKinds, size \in ReadSizes : TailStart(kind, size)
    \/ TailRead
    \/ \E rc \in {0, 1} : TailExit(rc)

SpecTail == Init /\ [][NextTail]_vars

(***************************************************************************)
(* The retained output log of the karaoke reader (karaoke.py:195-210) on   *)
(* its own.  Chunks are numbered in the order they are read; full_log is   *)
(* the list of the numbers of the chunks it holds.                         *)
(***************************************************************************)
\* The chunks read from one Demucs process.
MaxLogReads == 1600

\* A trim that keeps the oldest chunks (full_log[:500]).
TrimLog_head(full_log) ==
    IF Len(full_log) > LogTrimAt THEN SubSeq(full_log, 1, LogKeep) ELSE full_log

\* if len(full_log) > 1000: full_log = full_log[-500:]
TrimLog(full_log) ==
    IF Len(full_log) > LogTrimAt
    THEN SubSeq(full_log, Len(full_log) - LogKeep + 1, Len(full_log))
    ELSE full_log

\* full_log = [] (karaoke.py:196) before the first read.
LogStart == [op |-> "log", reads |-> 0, full_log |-> << >>]

Log == IF last.op = "log" THEN last ELSE LogStart

\* One turn of the loop with a non-empty chunk: append, then trim.
LogRead ==
    /\ last.op \in {"none", "log"}
    /\ Log.reads < MaxLogReads
    /\ last' = [op |-> "log", reads |-> Log.reads + 1,
                full_log |-> TrimLog(Append(Log.full_log, Log.reads + 1))]
    /\ UNCHANGED <<job_status_store, redis, idle, cloud, task>>

\* if not chunk: break
LogEof ==
    /\ last.op = "log"
    /\ last' = [last EXCEPT !.op = "log_eof"]
    /\ UNCHANGED <<job_status_store, redis, idle, cloud, task>>

NextLog == LogRead \/ LogEof

SpecLog == Init /\ [][NextLog]_vars

(***************************************************************************)
(* Transcription in cloud mode with its polls.  POST /api/transcribe       *)
(* writes the pending record to job_status_store of the API process        *)
(* (main.py:684-688) and sends the Celery task; the task writes its status *)
(* to Redis with a time to live (tasks.py:48-51); the poll reads Redis and *)
(* falls back to job_status_store (main.py:843-878).  last holds the last  *)
(* poll and the task ids for which a poll has returned a terminal status.  *)
(***************************************************************************)
\* The statuses a job ends with.
TerminalStatuses == {"completed", "error"}

Terminal(rec) == "status" \in DOMAIN rec /\ rec.status \in TerminalStatuses

\* The task ids a poll has answered with a terminal status so far.
SeenTerminal ==
    IF last.op = "get_transcribe_status" THEN last.terminal ELSE {}

\* The response reports a terminal status.
TerminalResp(resp) == resp.kind = "ok" /\ Terminal(resp.body)

\* GET /api/transcribe/status/{task_id}
CloudPoll(id, redisOk) ==
    /\ LET resp == get_transcribe_status(cloud, redis, job_status_store, id, redisOk)
       IN  last' = [op |-> "get_transcribe_status", id |-> id, resp |-> resp,
                    terminal |-> IF TerminalResp(resp)
                                 THEN SeenTerminal \cup {id} ELSE SeenTerminal]
    /\ UNCHANGED <<job_status_store, redis, idle, cloud, task>>

\* Time passes in Redis: keys at the end of their time to live are removed.
CloudTick ==
    /\ redis' = RedisTick(redis)
    /\ UNCHANGED <<job_status_store, idle, last, cloud, task>>

NextCloud ==
    \/ \E t \in Tasks, id \in NewJobIds, src \in JobIds : transcribe_audio(t, id, src)
    \/ \E t \in Tasks : WorkerTranscribeStart(t)
    \/ \E t \in Tasks, ok \in BOOLEAN : WorkerTranscribeFetched(t, ok)
    \/ \E t \in Tasks, midiFound \in BOOLEAN : WorkerTranscribePredicted(t, midiFound)
    \/ \E t \in Tasks, ok \in BOOLEAN : WorkerTranscribeUploaded(t, ok)
    \/ \E t \in Tasks : WorkerLost(t)
    \/ \E id \in JobIds, redisOk \in BOOLEAN : CloudPoll(id, redisOk)
    \/ CloudTick

\* REDIS_URL is set.
InitCloud == Init /\ cloud

SpecCloud == InitCloud /\ [][NextCloud]_vars

(***************************************************************************)
(* The event loop of the API process.  The endpoints and the background    *)
(* tasks are coroutines on one event loop: while a coroutine runs code     *)
(* that does not await, no other coroutine runs.  A step that takes time   *)
(* is split here into its start and its end: at pc "tr_predict" the        *)
(* coroutine local_transcribe is inside predict_and_save (main.py:787-795, *)
(* called in place), and a poll is served only while no coroutine holds    *)
(* the loop.  The download hands its process to a thread                   *)
(* (run_in_executor, main.py:291) and the simulated transcription awaits   *)
(* asyncio.sleep (main.py:724): the loop is free at those pcs.             *)
(***************************************************************************)
\* The pcs at which a coroutine is inside a call that takes time and does
\* not await.
HoldingPcs == {"tr_predict"}

\* A coroutine holds the event loop.
LoopHeld == \E t \in Tasks : task[t].pc \in HoldingPcs

\* main.py:703-786: the dependencies are looked for; without them progress
\* 50 and await sleep; with them progress 10, the source file is looked for,
\* progress 30, and predict_and_save is entered.
LoopTranscribeBegin(t, hasDeps, srcFound) ==
    /\ ~ LoopHeld
    /\ task[t].pc = "tr_begin"
    /\ LET s1 == Put(job_status_store, t, St("transcribing", 10, "reading audio"))
           s2 == Put(s1, t, St("transcribing", 30, "analysing pitch"))
       IN  IF ~hasDeps
           THEN /\ job_status_store' =
                       Put(job_status_store, t, St("transcribing", 50, "simulating"))
                /\ task' = [task EXCEPT ![t].pc = "tr_sim"]
           ELSE IF ~srcFound
           THEN /\ job_status_store' =
                       Put(s1, t, ErrorStatus("transcription failed: ", "source not found"))
                /\ task' = [task EXCEPT ![t] =
                               [pc |-> "done", why |-> "input", at |-> "tr_begin"] @@ @]
           ELSE /\ job_status_store' = s2
                /\ task' = [task EXCEPT ![t].pc = "tr_predict"]
    /\ UNCHANGED <<redis, idle, last, cloud>>

\* main.py:787-833: predict_and_save has returned or raised; the MIDI file
\* is looked for and the terminal status is written.
LoopTranscribeEnd(t, midi) ==
    /\ task[t].pc = "tr_predict"
    /\ LET ok == midi \in {"expected", "fallback"}
           e == IF midi = "missing" THEN "no midi generated" ELSE "predict raised"
       IN  /\ job_status_store' =
                  IF ok
                  THEN Put(job_status_store, t,
                           St("completed", 100, "transcription done") @@ [midi_url |-> "url"])
                  ELSE Put(job_status_store, t, ErrorStatus("transcription failed: ", e))
           /\ task' = [task EXCEPT ![t] =
                          [pc |-> "done",
                           why |-> IF ok THEN "none" ELSE "output",
                           at |-> IF ok THEN "none" ELSE "tr_begin"] @@ @]
    /\ UNCHANGED <<redis, idle, last, cloud>>

\* A coroutine of the loop other than the one that holds it takes a step.
LoopStep(A) == ~ LoopHeld /\ A

\* GET /api/status/{job_id} is served.
LoopPoll(id) == LoopStep(PollStatus(id))

NextLoop ==
    \/ \E t \in Tasks, id \in NewJobIds, src \in JobIds :
           LoopStep(transcribe_audio(t, id, src))
    \/ \E t \in Tasks, hasDeps, srcFound \in BOOLEAN :
           LoopTranscribeBegin(t, hasDeps, srcFound)
    \/ \E t \in Tasks, midi \in {"expected", "fallback", "missing", "raise"} :
           LoopTranscribeEnd(t, midi)
    \/ \E t \in Tasks, ioOk \in BOOLEAN : LoopStep(TranscribeSimFinish(t, ioOk))
    \/ \E t \in Tasks, id \in NewJobIds : LoopStep(download_youtube(t, id))
    \/ \E t \in Tasks : LoopStep(DownloadStart(t))
    \/ \E t \in Tasks, rc \in ExitCodes, signIn, found \in BOOLEAN :
           LoopStep(DownloadExit(t, rc, signIn, found))
    \/ \E t \in Tasks, signIn \in BOOLEAN : LoopStep(DownloadTimeout(t, signIn))
    \/ \E id \in JobIds : LoopPoll(id)

\* REDIS_URL is not set: the transcription runs in the API process.
InitLocal == Init /\ ~ cloud

SpecLoop == InitLocal /\ [][NextLoop]_vars

(***************************************************************************)
(* The karaoke pipeline up to its separation stage, with every progress    *)
(* line on record: last holds the percentage of the line read last, its    *)
(* mapped progress and the record of the job before the line.              *)
(***************************************************************************)
\* The percentages of the progress lines: the band ends, their neighbours
\* and a number of three digits.
ThrottlePercents == {0, 1, 2, 4, 50, 98, 99, 100, 200}

ThrottleLine(t, d_prog) ==
    /\ KaraokeRead(t, d_prog)
    /\ last' = [op |-> "line", t |-> t, d_prog |-> d_prog,
                overall_prog |-> OverallProg(d_prog),
                before |-> get_job_status(job_status_store, task[t].jid)]

NextThrottle ==
    \/ \E t \in Tasks, id \in NewJobIds, inp \in {"http", "path"} :
           create_karaoke(t, id, inp)
    \/ \E t \in Tasks, sourceExists \in BOOLEAN : KaraokeStart(t, sourceExists)
    \/ \E t \in Tasks : KaraokeTitleExit(t)
    \/ \E t \in Tasks, rc \in ExitCodes, exists \in BOOLEAN :
           KaraokeDownloadExit(t, rc, exists)
    \/ \E t \in Tasks, rc \in ExitCodes, exists \in BOOLEAN :
           KaraokeExtractExit(t, rc, exists)
    \/ \E t \in Tasks, d_prog \in ThrottlePercents : ThrottleLine(t, d_prog)

SpecThrottle == Init /\ [][NextThrottle]_vars

(***************************************************************************)
(* Properties of the stores and the polling endpoints (SpecStore).         *)
(***************************************************************************)
\* The dict held for a job id before a call, {} when there is none.
HeldBefore(id) ==
    IF id \in DOMAIN job_status_store THEN job_status_store[id] ELSE << >>

\* C7: update_job_status merges.  After any update_job_status(id, diff) the
\* record get_job_status(id) returns holds every field of diff with diff's
\* value and every field it held before and diff does not name with its
\* previous value; so {progress: 10} followed by {message: "x"} reads back
\* with both.
C7_UpdateMerges ==
    [][ last'.op = "set" =>
          LET id == last'.id
              diff == last'.diff
              old == HeldBefore(id)
              got == get_job_status(job_status_store', id)
          IN  /\ DOMAIN got = DOMAIN old \cup DOMAIN diff
              /\ \A f \in DOMAIN diff : got[f] = diff[f]
              /\ \A f \in DOMAIN old \ DOMAIN diff : got[f] = old[f] ]_vars

\* C7, its case: {progress: 10} and {message: "x"} were the only updates of a
\* job id, the second came last, and the record holds exactly both.
C7_Witness ==
    \E id \in JobIds :
        /\ last = [op |-> "set", id |-> id, diff |-> [message |-> "x"]]
        /\ get_job_status(job_status_store, id) = [progress |-> 10, message |-> "x"]

\* C8: the record read back from Redis (while its key is there) is the
\* record read back from job_status_store after the same updates.
C8_StoresAgree ==
    \A id \in JobIds :
        RedisHas(redis, id) =>
            RedisGet(redis, id) = get_job_status(job_status_store, id)

\* C9: a poll of a job id that has no record answers with a status snapshot
\* whose status is unknown, never with an error.
C9_UnknownIsNotAnError ==
    (last.op \in {"get_status", "get_transcribe_status"} /\ ~last.known) =>
        /\ last.resp.kind = "ok"
        /\ last.resp.body.status = "unknown"

\* C10: once the retention window has passed since the last write to a job
\* id, a read of it is the read of a job id that never existed, in
\* job_status_store as in Redis.
C10_ExpiredReadsAsAbsent ==
    \A id \in JobIds :
        idle[id] >= TtlTicks =>
            /\ ~RedisHas(redis, id)
            /\ get_job_status(job_status_store, id) = UnknownStatus

(***************************************************************************)
(* Properties of the pipelines (Spec).                                     *)
(***************************************************************************)
IsWorker(t) == task[t].kind \in {"wtranscribe", "wseparate", "wmix"}

\* The record of invocation t's job in the store its pipeline writes to.
Rec(t) ==
    IF IsWorker(t)
    THEN IF RedisHas(redis, task[t].jid) THEN RedisGet(redis, task[t].jid)
         ELSE UnknownStatus
    ELSE get_job_status(job_status_store, task[t].jid)

\* No other invocation was given the job id of invocation t.
Sole(t) == \A u \in Tasks \ {t} : task[u].jid # task[t].jid

\* The slice of the overall progress a stage owns: from the progress written
\* when the stage starts to the progress written when the next one starts
\* (100 when the job completes after it).
MainBand(pc) ==
    CASE pc = "dl_proc" -> <<30, 100>>
      [] pc = "sep_proc" -> <<0, 80>>

KaraokeBand(pc) ==
    CASE pc \in {"k_title", "k_dl"} -> <<10, 30>>
      [] pc = "k_extract" -> <<30, 40>>
      [] pc = "k_demucs" -> <<30, 85>>
      [] pc = "k_mix" -> <<85, 90>>
      [] pc \in {"k_vocals", "k_stems"} -> <<90, 92>>
      [] pc = "k_inst" -> <<92, 95>>
      [] pc = "k_remux" -> <<95, 100>>

WorkerBand(pc) ==
    CASE pc \in {"ws_dl", "ws_dl2"} -> <<10, 30>>
      [] pc = "ws_demucs" -> <<30, 80>>
      [] pc = "wm_ffmpeg" -> <<50, 80>>

StageBand(t) ==
    IF task[t].kind = "karaoke" THEN KaraokeBand(task[t].at)
    ELSE IF IsWorker(t) THEN WorkerBand(task[t].at)
    ELSE MainBand(task[t].at)

\* C1: once a terminal status (completed or error) is in a job id's record, no
\* later write changes the status of that job id, in job_status_store and in
\* Redis: a job id never leaves a terminal status.
C1_TerminalIsFinal ==
    [][ \A j \in JobIds :
          /\ (j \in DOMAIN job_status_store /\ Terminal(job_status_store[j])) =>
                 job_status_store'[j].status = job_status_store[j].status
          /\ (RedisHas(redis, j) /\ RedisHas(redis', j) /\ Terminal(RedisGet(redis, j))) =>
                 RedisGet(redis', j).status = RedisGet(redis, j).status ]_vars

\* C1 for the job ids that were given to one invocation only: the same
\* statement, which the pipelines themselves keep.
C1_TerminalIsFinalForSoleIds ==
    [][ \A j \in JobIds :
          Cardinality({t \in Tasks : task'[t].jid = j}) <= 1 =>
          /\ (j \in DOMAIN job_status_store /\ Terminal(job_status_store[j])) =>
                 job_status_store'[j].status = job_status_store[j].status
          /\ (RedisHas(redis, j) /\ RedisHas(redis', j) /\ Terminal(RedisGet(redis, j))) =>
                 RedisGet(redis', j).status = RedisGet(redis, j).status ]_vars

\* C2: between the pending write and the terminal write, no write to a job's
\* record lowers its progress.  Stated for the job ids given to one
\* invocation only and for the writes that follow the pending one.
C2_ProgressNeverDecreases ==
    [][ \A j \in JobIds :
          ( /\ Cardinality({t \in Tasks : task'[t].jid = j}) <= 1
            /\ j \in DOMAIN job_status_store
            /\ ~Terminal(job_status_store[j])
            /\ ~Terminal(job_status_store'[j]) ) =>
          job_status_store'[j].progress >= job_status_store[j].progress ]_vars

\* C3: after an external process of a job's stage has exited with a non-zero
\* code, the pipeline has stopped and (when no other invocation shares the
\* job id) the job's record has status error: no stage runs after it.
C3_NonZeroExitAborts ==
    \A t \in Tasks :
        task[t].nz =>
            /\ task[t].pc = "done"
            /\ Sole(t) => Rec(t).status = "error"

\* C4: every external process a pipeline is waiting for was started with a
\* timeout.
C4_EveryProcessHasTimeout ==
    \A t \in Tasks : task[t].pc \in ProcPcs => ProcTimeout(task[t].pc) > 0

\* C5: a job whose stage process was killed at its timeout ends with status
\* error, and its error text is not the text of any job of the same kind
\* that ended because a process exited with a non-zero code.
C5_TimeoutIsClassified ==
    \A t \in Tasks :
        (task[t].why = "timeout" /\ Sole(t)) =>
            /\ Rec(t).status = "error"
            /\ \A u \in Tasks :
                   ( /\ task[u].kind = task[t].kind
                     /\ task[u].why = "exit"
                     /\ task[u].pc = "done"
                     /\ Sole(u) ) =>
                   Rec(u).error # Rec(t).error

\* C6: after the terminal error write of a job whose stage process failed
\* (non-zero exit, timeout, missing output), the progress in the job's record
\* lies within the band of the stage that failed.
C6_ErrorKeepsProgressInBand ==
    \A t \in Tasks :
        ( /\ task[t].pc = "done"
          /\ task[t].at \in ProcPcs
          /\ Sole(t) ) =>
        /\ Rec(t).status = "error"
        /\ Rec(t).progress >= StageBand(t)[1]
        /\ Rec(t).progress <= StageBand(t)[2]

\* The pipelines of the API process that have an external process running
\* which asyncio.create_subprocess_exec started.  (The yt-dlp of a download
\* job runs on the default thread pool of the event loop, which is bounded;
\* the Celery tasks run in the worker's pool.)
Running ==
    {t \in Tasks : task[t].kind \in {"separate", "karaoke"} /\ task[t].pc \in ProcPcs}

\* C11: with a pool of N = MaxTasks - 1 slots, at no moment do more than N
\* separation or karaoke pipelines run an external process: of MaxTasks
\* submitted jobs at least one is waiting.
C11_AtMostPoolSizeRun == Cardinality(Running) < MaxTasks

\* C12: a job id is run by one pipeline invocation: no two invocations hold
\* the same job id, and the task of no job id is started a second time.
C12_OneInvocationPerId ==
    \A t \in Tasks :
        task[t].pc # "idle" =>
            /\ task[t].runs = 0
            /\ Sole(t)

\* C13: the job id a submit endpoint of the API hands to a new invocation has
\* no record in job_status_store at that moment: the pending write creates
\* the record.
C13_SubmitAllocatesFreshId ==
    [][ \A t \in Tasks :
          ( /\ task[t].pc = "idle"
            /\ task'[t].pc # "idle"
            /\ task'[t].kind \in {"download", "separate", "karaoke", "transcribe",
                                  "wtranscribe"} ) =>
          task'[t].jid \notin DOMAIN job_status_store ]_vars

\* C14: a job of the API whose input turned out not to exist (no such source
\* file) was never created: job_status_store holds no record under its id.
C14_InvalidInputWritesNoRecord ==
    \A t \in Tasks :
        ( /\ task[t].why = "input"
          /\ task[t].kind \in {"download", "separate", "karaoke", "transcribe"} ) =>
        task[t].jid \notin DOMAIN job_status_store

\* The pcs of an invocation that was submitted and has not run a line yet.
BeginPcs ==
    {"dl_begin", "sep_begin", "k_begin", "tr_begin", "wt_begin", "ws_begin", "wm_begin"}

\* Invocation t has started and has not ended.
InFlight(t) == task[t].pc \notin {"idle", "done", "crashed"} \cup BeginPcs

\* The directory (or file stem) an invocation stages its files in:
\* downloads/<job_id>.* (main.py:239), separated/<job_id> (main.py:347),
\* karaoke_output/<date>/<job_id> (karaoke.py:39), and for a local
\* transcription separated/<request.job_id>, the directory of its source job
\* (main.py:729, 784); a Celery task works in a TemporaryDirectory of its own.
StagingDir(t) ==
    CASE task[t].kind = "download" -> <<"downloads", task[t].jid>>
      [] task[t].kind = "separate" -> <<"separated", task[t].jid>>
      [] task[t].kind = "karaoke" -> <<"karaoke", task[t].jid>>
      [] task[t].kind = "transcribe" -> <<"separated", task[t].src>>
      [] OTHER -> <<"tmp", t>>

\* C15: two invocations in flight at the same time under different job ids
\* do not stage their files in the same directory.
C15_StagingDirsAreDisjoint ==
    \A t, u \in Tasks :
        ( /\ t # u
          /\ InFlight(t) /\ InFlight(u)
          /\ task[t].jid # task[u].jid ) =>
        StagingDir(t) # StagingDir(u)

\* C16: a status write for one job id, update_job_status on the dict and
\* update_status on Redis, leaves the record of every other job id as it
\* was: present or absent as before, with the same fields and values (and in
\* Redis the same remaining lifetime).
C16_WriteLeavesOtherJobsAlone ==
    [][ last'.op = "set" =>
          \A j \in JobIds \ {last'.id} :
              /\ (j \in DOMAIN job_status_store') = (j \in DOMAIN job_status_store)
              /\ get_job_status(job_status_store', j) = get_job_status(job_status_store, j)
              /\ RedisHas(redis', j) = RedisHas(redis, j)
              /\ RedisHas(redis, j) => redis'[j] = redis[j] ]_vars

\* C16, its case: the terminal error record of a failing job was just
\* written while another job id holds a different record in both stores.
C16_Witness ==
    \E id, other \in JobIds :
        /\ other # id
        /\ last.op = "set" /\ last.id = id
        /\ "status" \in DOMAIN last.diff /\ last.diff.status = "error"
        /\ other \in DOMAIN job_status_store
        /\ job_status_store[other] # job_status_store[id]
        /\ RedisHas(redis, other)
        /\ RedisGet(redis, other) # RedisGet(redis, id)

C18_CompletedHasEveryOutput ==
    \A t \in Tasks :
        ( /\ task[t].kind = "karaoke" /\ task[t].pc = "done" /\ Sole(t)
          /\ Rec(t).status = "completed" ) =>
        /\ Rec(t).vocals_url # "None"
        /\ Rec(t).instrumental_url # "None"

\* The band of the karaoke separation stage.
BandStart == 30
BandEnd == 85

\* C19: the mapping of the karaoke separation stage returns the band start
\* for stage progress 0 and the band end for stage progress 100: 30 and 85.
C19_MapHitsBandEnds ==
    last.op = "overall_prog" =>
        /\ last.d_prog = 0 => last.overall_prog = BandStart
        /\ last.d_prog = 100 => last.overall_prog = BandEnd

\* C19, its case: stage progress 100 was mapped, to 85.
C19_Witness ==
    /\ last.op = "overall_prog"
    /\ last.d_prog = 100
    /\ last.overall_prog = 85

\* round(num / den) for naturals, halves rounded up.
Round(num, den) == (2 * num + den) \div (2 * den)

\* C20: for every stage percentage p in 0..100 the mapped overall progress is
\* bandStart + round(p * (bandEnd - bandStart) / 100).
C20_MapRounds ==
    (last.op = "overall_prog" /\ last.d_prog \in 0..100) =>
        last.overall_prog = BandStart + Round(last.d_prog * (BandEnd - BandStart), 100)

\* C21: the mapping of the karaoke separation stage is monotonic: when a
\* stage percentage is mapped after one that is not larger, its overall
\* progress is not smaller; and the value mapped for q is not below the value
\* of any p <= q.
C21_MapIsMonotonic ==
    [][ (last.op = "overall_prog" /\ last'.op = "overall_prog") =>
          /\ last.d_prog <= last'.d_prog => last.overall_prog <= last'.overall_prog
          /\ \A p \in 0..last'.d_prog : OverallProg(p) <= last'.overall_prog ]_vars

\* C21, its case: a percentage above 0 was mapped, to more than the band start.
C21_Witness ==
    /\ last.op = "overall_prog"
    /\ last.d_prog = 50
    /\ last.overall_prog > OverallProg(0)

\* The digits standing immediately before the first '%' of a line.
RECURSIVE DigitsAtEnd(_)
DigitsAtEnd(s) ==
    IF s = << >> \/ s[Len(s)] \notin DigitChars THEN << >>
    ELSE Append(DigitsAtEnd(SubSeq(s, 1, Len(s) - 1)), s[Len(s)])

\* C22: for every line the parser yields the integer standing immediately
\* before the '%' when the line holds a '%' and a '|' and digits stand there,
\* and yields nothing otherwise.
C22_ParserYieldsNumberBeforePercent ==
    last.op = "parse" =>
        LET before == DigitsAtEnd(SplitFirst(last.line, "%"))
        IN  IF In("%", last.line) /\ In("|", last.line) /\ before # << >>
            THEN last.percent = int(before)
            ELSE last.percent = NoMatch


(***************************************************************************)
(* Properties of the output reader (SpecRead).                             *)
(***************************************************************************)
\* The position of the earliest terminator of s, 0 when it holds none.
FirstTerminator(s) ==
    IF \E i \in DOMAIN s : s[i] \in {"\n", "\r"}
    THEN CHOOSE i \in DOMAIN s : s[i] \in {"\n", "\r"} /\ \A j \in 1..(i - 1) : s[j] \notin {"\n", "\r"}
    ELSE 0

\* The lines of s cut at the earliest terminator, time after time, each
\* stripped and the empty ones left out, and the remainder without a
\* terminator.
RECURSIVE CutEarliest(_, _)
CutEarliest(s, lines) ==
    LET i == FirstTerminator(s)
    IN  IF i = 0 THEN [buffer |-> s, lines |-> lines]
        ELSE LET line == strip(SubSeq(s, 1, i - 1))
             IN  CutEarliest(SubSeq(s, i + 1, Len(s)),
                             IF line = << >> THEN lines ELSE Append(lines, line))

\* C23: the reader cuts at the earliest terminator.  After any read the
\* lines handed to the parser are those of the arrived bytes cut at the
\* earliest of '\n' and '\r', in the order of arrival, the remainder stays
\* in the buffer, and no handed line holds a '\n' or a '\r'.
C23_ReaderCutsAtEarliestTerminator ==
    last.op \in {"read", "eof"} =>
        /\ last.lines = CutEarliest(last.arrived, << >>).lines
        /\ last.buffer = CutEarliest(last.arrived, << >>).buffer
        /\ \A k \in DOMAIN last.lines :
              ~ In("\n", last.lines[k]) /\ ~ In("\r", last.lines[k])


(***************************************************************************)
(* Properties of the records (Spec).                                       *)
(***************************************************************************)
\* The records held, those of job_status_store and those of Redis.
Records ==
    {job_status_store[j] : j \in DOMAIN job_status_store}
        \cup {RedisGet(redis, j) : j \in DOMAIN redis}

\* C24: the progress of every job record is between 0 and 100, whatever
\* number a progress line of the external tool holds (three digits too), and
\* while a karaoke job is in its separation stage the progress of its record
\* is within the band of the stage, 30 to 85.
C24_ProgressIsInRange ==
    /\ \A r \in Records : r.progress \in 0..100
    /\ \A t \in Tasks :
          (task[t].kind = "karaoke" /\ task[t].pc = "k_demucs" /\ Sole(t)) =>
              Rec(t).progress \in BandStart..BandEnd


\* The field of the result payload a job of a kind completes with.
PayloadField(kind) ==
    CASE kind \in {"download", "karaoke"} -> "file_url"
      [] kind \in {"separate", "wseparate"} -> "tracks"
      [] kind \in {"transcribe", "wtranscribe"} -> "midi_url"
      [] kind = "wmix" -> "mix_url"

PayloadFields == {"file_url", "tracks", "midi_url", "mix_url"}

\* C25: a record whose status is completed has progress 100 and carries a
\* result payload (file_url, tracks, midi_url or mix_url), and the record of
\* a finished job that is completed carries the payload of the job's kind.
C25_CompletedHasProgressAndPayload ==
    /\ \A r \in Records :
          r.status = "completed" =>
              r.progress = 100 /\ DOMAIN r \cap PayloadFields # {}
    /\ \A t \in Tasks :
          (task[t].pc = "done" /\ Sole(t) /\ Rec(t).status = "completed") =>
              PayloadField(task[t].kind) \in DOMAIN Rec(t)

\* A separation, a karaoke job or a worker mix has finished with its payload.
C25_Witness ==
    \E t \in Tasks :
        /\ task[t].pc = "done"
        /\ task[t].kind \in {"separate", "wmix", "karaoke"}
        /\ Rec(t).status = "completed"
        /\ Rec(t).progress = 100
        /\ PayloadField(task[t].kind) \in DOMAIN Rec(t)


\* C26: a job record holds an error detail only when its status is error:
\* no record with status pending, a running status or completed has the
\* error field.
C26_ErrorFieldOnlyWithErrorStatus ==
    \A r \in Records : "error" \in DOMAIN r => r.status = "error"

\* The same for the records of job ids that were handed out once.
C26_ErrorFieldOnlyWithErrorStatusForSoleIds ==
    \A t \in Tasks :
        (task[t].kind # "none" /\ Sole(t) /\ "error" \in DOMAIN Rec(t)) =>
            Rec(t).status = "error"


(***************************************************************************)
(* Atomicity of a status update for the polls (SpecStore).  The writers of *)
(* job_status_store are coroutines on the one event loop (the thread of    *)
(* main.py:261-291 writes no status), update_job_status holds no await and *)
(* get_status none between its read and its response, so an update and a   *)
(* poll are one step each; a Redis SET and a Redis GET are one command     *)
(* each.                                                                   *)
(***************************************************************************)
\* The record of id holds every field of one of the updates applied to it,
\* or none: the fields status and error, which only the error update
\* writes, are there together with its values or the status is not error
\* and there is no error field.
WholeRecord(r) ==
    \/ DictGet(r, "status", "None") = "error" /\ DictGet(r, "error", "None") = "e"
    \/ DictGet(r, "status", "None") # "error" /\ DictGet(r, "error", "None") = "None"

\* C27: a status update is atomic for the polls.  The store passes from the
\* record before an update to the record with the whole update in one step,
\* and a poll answers from one record of the store: the response of
\* get_status is the view of the record held, with the fields of the error
\* update all there or none of them, and a response of get_transcribe_status
\* read from Redis is one whole status document.
C27_UpdateIsAtomicForPolls ==
    [][ /\ last'.op = "set" =>
              /\ job_status_store'[last'.id] = DictUpdate(HeldBefore(last'.id), last'.diff)
              /\ RedisGet(redis', last'.id) = last'.diff
        /\ last'.op = "get_status" =>
              /\ last'.resp = get_status(job_status_store, last'.id)
              /\ last'.resp.kind = "ok" => WholeRecord(last'.resp.body)
        /\ (last'.op = "get_transcribe_status" /\ last'.resp.kind = "ok") =>
              \/ last'.resp.body \in Diffs
              \/ /\ last'.id \in DOMAIN job_status_store
                 /\ last'.resp.body.status = DictGet(job_status_store[last'.id], "status", "unknown")
                 /\ last'.resp.body.progress = DictGet(job_status_store[last'.id], "progress", 0)
                 /\ last'.resp.body.message = DictGet(job_status_store[last'.id], "message", "")
      ]_vars

\* A poll has answered with the record of a job that was updated with the
\* error record and with a message after it.
C27_Witness ==
    /\ last.op = "get_status"
    /\ last.resp.kind = "ok"
    /\ last.resp.body.status = "error"
    /\ last.resp.body.error = "e"
    /\ last.resp.body.message = "x"


(***************************************************************************)
(* The order of the stages (Spec).                                         *)
(***************************************************************************)
\* The stage processes of a pipeline in the order the code creates them:
\* main.py:268 (yt-dlp), 367 (Demucs); karaoke.py:67 (title), 110 (download),
\* 164 (extraction), 191 (Demucs), 301 (mix), 320 (vocals, stems,
\* instrumental), 373 (remux); tasks.py:128 and 137 (yt-dlp), 188 (Demucs);
\* tasks.py:333 (ffmpeg mix).
StageOrder ==
    <<"dl_proc", "sep_proc",
      "k_title", "k_dl", "k_extract", "k_demucs", "k_mix", "k_vocals", "k_stems",
      "k_inst", "k_remux",
      "ws_dl", "ws_dl2", "ws_demucs", "wm_ffmpeg">>

StageIndex(pc) == CHOOSE i \in DOMAIN StageOrder : StageOrder[i] = pc

\* C28: the stages of one job run one after another.  An invocation stands
\* at one stage; the process of a stage is started by a step of the running
\* pipeline, and when a process of the invocation was running before that
\* step, the step is the one that has seen it end and the new process is
\* that of a later stage: no stage process is started while another one of
\* the invocation runs, and none is started again.
C28_StagesRunOneAfterAnother ==
    [][ \A t \in Tasks :
          (task'[t].pc \in ProcPcs /\ task'[t].pc # task[t].pc) =>
              /\ task[t].pc \notin {"idle", "done", "crashed"}
              /\ task[t].pc \in ProcPcs =>
                     StageIndex(task[t].pc) < StageIndex(task'[t].pc)
              /\ task'[t].kind = task[t].kind
              /\ task'[t].jid = task[t].jid
      ]_vars

\* A karaoke job for a URL stands at its last stage process, the remux.
C28_Witness ==
    \E t \in Tasks :
        task[t].kind = "karaoke" /\ task[t].inp = "http" /\ task[t].pc = "k_remux"


\* The stage a process belongs to: the two yt-dlp runs of tasks.py:128 and
\* 137 are both the download stage of separate_music.
StageOf(pc) == IF pc \in {"ws_dl", "ws_dl2"} THEN "ws_download" ELSE pc

\* C29: within one run of a job a stage invokes its external tool at most
\* once: when a process of a stage has ended, the invocation does not start
\* another process of the same stage, with the same or with other arguments.
C29_NoSecondInvocationInAStage ==
    [][ \A t \in Tasks :
          ( /\ task[t].pc \in ProcPcs
            /\ task'[t].pc \in ProcPcs
            /\ task'[t].pc # task[t].pc ) =>
              StageOf(task'[t].pc) # StageOf(task[t].pc)
      ]_vars


(***************************************************************************)
(* Properties of the diagnostic text (SpecTail).                           *)
(***************************************************************************)
\* The largest tail any pipeline cuts: twenty chunks of a karaoke job.
DiagBound == LogChunks * ChunkBytes

\* C30: the diagnostic text in the error record of a job whose process
\* exited non-zero is a tail of the output (never longer than the output)
\* and its length is bounded by a fixed constant, whatever the amount of
\* output.
C30_DiagnosticIsBoundedTail ==
    last.op = "failed" =>
        /\ last.diag <= last.bytes
        /\ last.diag <= DiagBound

\* The same for the download of the API and the Demucs stage of a karaoke
\* job.
C30_DiagnosticIsBoundedTailInApi ==
    (last.op = "failed" /\ last.kind \in {"download", "karaoke"}) =>
        /\ last.diag <= last.bytes
        /\ last.diag <= DiagBound


(***************************************************************************)
(* Properties of the retained output log (SpecLog).                        *)
(***************************************************************************)
\* C31: the retained log of the karaoke reader never holds more than 1000
\* chunks, and it is the most recently read chunks in the order of arrival:
\* a contiguous suffix of all the chunks read so far.
C31_LogIsBoundedSuffix ==
    last.op \in {"log", "log_eof"} =>
        /\ Len(last.full_log) <= LogTrimAt
        /\ Len(last.full_log) <= last.reads
        /\ \A i \in DOMAIN last.full_log :
              last.full_log[i] = last.reads - Len(last.full_log) + i

\* The log has been trimmed twice and has grown again after it.
C31_Witness ==
    /\ last.op = "log"
    /\ last.reads = LogTrimAt + LogKeep + 3
    /\ Len(last.full_log) = LogKeep + 1
    /\ last.full_log[1] = LogTrimAt + 3


(***************************************************************************)
(* The end of a local pipeline (Spec).                                     *)
(***************************************************************************)
\* The pipeline of invocation t has stopped running: it returned or an
\* exception left it.
Stopped(t) == task[t].pc \in {"done", "crashed"}

\* C32: every failure raised inside a local pipeline becomes a terminal
\* error record: once the pipeline of a job of the API has stopped running,
\* the record of the job is completed or error (nothing writes to it after
\* that, so a record that is not terminal then stays so forever).
C32_StoppedPipelineIsTerminal ==
    \A t \in Tasks :
        (Stopped(t) /\ ~ IsWorker(t) /\ Sole(t)) => Terminal(Rec(t))


(***************************************************************************)
(* Properties of the transcription polls in cloud mode (SpecCloud).        *)
(***************************************************************************)
\* C33: in cloud mode, once a poll of a transcription task has returned a
\* terminal status, no later poll of that task returns a status that is not
\* terminal: it returns the terminal record, or reports the task as not
\* found when the Redis record has expired or Redis cannot be read.
C33_PollNeverLeavesTerminal ==
    [][ ( /\ last'.op = "get_transcribe_status"
          /\ last' # last
          /\ last'.id \in SeenTerminal
          /\ last'.resp.kind = "ok" ) =>
              Terminal(last'.resp.body)
      ]_vars


(***************************************************************************)
(* Properties of the event loop (SpecLoop).                                *)
(***************************************************************************)
\* C34: while the pipeline of a job runs, polls and submissions for other
\* jobs are still served: in every state the event loop is free to serve a
\* poll of any job id, no pipeline step holds it for its duration.
C34_LoopIsNeverHeld ==
    \A id \in JobIds : ENABLED LoopPoll(id)


(***************************************************************************)
(* Properties of the progress writes of a karaoke separation               *)
(* (SpecThrottle).                                                         *)
(***************************************************************************)
\* C35: during karaoke separation a parsed progress line causes a status
\* write only when its mapped overall progress is even: the record of the
\* job is then the record before with status separating and that progress;
\* a line whose mapped progress is odd (85, the band end, is) leaves the
\* whole store as it was.
C35_WritesOnlyEvenProgress ==
    [][ \A t \in Tasks :
          (task[t].pc = "k_demucs" /\ task'[t].n = task[t].n + 1) =>
              /\ last'.op = "line" /\ last'.t = t
              /\ last'.before = get_job_status(job_status_store, task[t].jid)
              /\ IF last'.overall_prog % 2 = 0
                 THEN /\ job_status_store'[task[t].jid].progress = last'.overall_prog
                      /\ job_status_store'[task[t].jid].status = "separating"
                      /\ \A j \in DOMAIN job_status_store \ {task[t].jid} :
                            job_status_store'[j] = job_status_store[j]
                 ELSE job_status_store' = job_status_store
      ]_vars

\* The line 100% has been read, mapped to 85, and the record of the job
\* still holds the progress 84 of the line before it.
C35_Witness ==
    /\ last.op = "line"
    /\ last.d_prog = 100
    /\ last.overall_prog = BandEnd
    /\ last.before.progress = 84
    /\ get_job_status(job_status_store, task[last.t].jid) = last.before


(***************************************************************************)
(* Properties of the mix task of the worker (Spec).                        *)
(***************************************************************************)
\* Invocation t is a mix task and takes a step.
MixStep(t) == task[t].kind = "wmix" /\ task'[t] # task[t]

\* C36: a mix job whose source job has no status record in Redis when the
\* task looks it up ends with status error at that step (a step of the task
\* function, not the loss of its worker) and does not start the mixing
\* tool; and a step of a mix task writes no record but the one of its own
\* mix job id: the record of every other job id, that of its source job
\* among them, is left as it was, in Redis and in job_status_store.  (The
\* ids are arguments of the task; were both the same id, the two records
\* would be one.)
C36_MixNeedsSourceAndWritesOwnRecord ==
    [][ \A t \in Tasks :
          MixStep(t) =>
              /\ ( /\ task[t].pc = "wm_lookup"
                   /\ task'[t].runs = task[t].runs
                   /\ ~ RedisHas(redis, task[t].src) ) =>
                     /\ task'[t].pc = "done"
                     /\ RedisGet(redis', task[t].jid).status = "error"
              /\ task'[t].pc = "wm_ffmpeg" => RedisHas(redis, task[t].src)
              /\ job_status_store' = job_status_store
              /\ \A j \in JobIds \ {task[t].jid} :
                     /\ RedisHas(redis', j) = RedisHas(redis, j)
                     /\ RedisHas(redis, j) => redis'[j] = redis[j]
      ]_vars

\* A mix task has ended in error at its lookup: its source job, another job
\* id, has no record in Redis, and its own record is the error record.
C36_Witness ==
    \E t \in Tasks :
        /\ task[t].kind = "wmix"
        /\ task[t].pc = "done"
        /\ task[t].at = "wm_lookup"
        /\ task[t].src # task[t].jid
        /\ ~ RedisHas(redis, task[t].src)
        /\ RedisHas(redis, task[t].jid)
        /\ RedisGet(redis, task[t].jid).status = "error"

====
